---- MODULE Spec2Model ----
(***************************************************************************)
(* AeroForge Monte-Carlo range analysis (src/python/aeroforge_analysis.py). *)
(*                                                                         *)
(* Numbers are floating-point values.  They are modelled as decimal        *)
(* floating-point numbers with a six-digit mantissa: every arithmetic      *)
(* operation rounds (by truncation) to six significant digits, the way     *)
(* every float64 operation rounds to 53 bits.  Division by zero and the    *)
(* special values inf and nan follow numpy.float64.                        *)
(***************************************************************************)
EXTENDS Integers, Sequences, FiniteSets, TLC

VARIABLES rng, run, ref, stats, calc

vars == <<rng, run, ref, stats, calc>>

----------------------------------------------------------------------------
(* Bounds of the model *)

\* largest n_runs tried
MaxRuns == 3
\* largest seed tried
MaxSeed == 1
\* number of states of the process-wide random generator
RngStates == 4

----------------------------------------------------------------------------
(* Decimal floating point: [k, s, m, e] stands for s * m * 10^e, with       *)
(* 100000 <= m <= 999999, or m = 0 for zero.                                *)

MantLo == 100 * 1000
MantHi == 1000 * 1000

Zero == [k |-> "fin", s |-> 1, m |-> 0, e |-> 0]
NaN == [k |-> "nan", s |-> 1, m |-> 0, e |-> 0]
Inf(sign) == [k |-> "inf", s |-> sign, m |-> 0, e |-> 0]

RECURSIVE Norm(_, _, _)
Norm(sign, mant, exp) ==
    IF mant = 0 THEN Zero
    ELSE IF mant >= MantHi THEN Norm(sign, mant \div 10, exp + 1)
    ELSE IF mant < MantLo THEN Norm(sign, mant * 10, exp - 1)
    ELSE [k |-> "fin", s |-> sign, m |-> mant, e |-> exp]

\* the decimal literal n * 10^exp
Dec(n, exp) == IF n < 0 THEN Norm(-1, -n, exp) ELSE Norm(1, n, exp)

IsNaN(a) == a.k = "nan"
IsZero(a) == a.k = "fin" /\ a.m = 0

RECURSIVE Pow10(_)
Pow10(n) == IF n = 0 THEN 1 ELSE 10 * Pow10(n - 1)

\* a < b on non-nan values
FLess(a, b) ==
    LET neg(x) == x.s = -1 /\ ~IsZero(x)
        \* magnitude order of two finite values
        magLess(x, y) ==
            IF x.m = 0 THEN y.m # 0
            ELSE IF y.m = 0 THEN FALSE
            ELSE x.e < y.e \/ (x.e = y.e /\ x.m < y.m)
    IN  IF a.k = "inf" THEN a.s = -1 /\ ~(b.k = "inf" /\ b.s = -1)
        ELSE IF b.k = "inf" THEN b.s = 1
        ELSE IF neg(a) /\ ~neg(b) THEN TRUE
        ELSE IF ~neg(a) /\ neg(b) THEN FALSE
        ELSE IF neg(a) THEN magLess(b, a)
        ELSE magLess(a, b)

\* Python/numpy comparison a >= b: False when either side is nan
FGeq(a, b) == ~IsNaN(a) /\ ~IsNaN(b) /\ ~FLess(a, b)

FNeg(a) == IF a.k = "nan" \/ IsZero(a) THEN a ELSE [a EXCEPT !.s = -a.s]

\* a * b
FMul(a, b) ==
    IF a.k = "nan" \/ b.k = "nan" THEN NaN
    ELSE IF a.k = "inf" \/ b.k = "inf"
         THEN IF IsZero(a) \/ IsZero(b) THEN NaN ELSE Inf(a.s * b.s)
    ELSE IF a.m = 0 \/ b.m = 0 THEN Zero
    ELSE LET h == b.m \div 1000
             l == b.m % 1000
             hi == a.m * h
             lo == a.m * l
             \* floor(a.m * b.m / 10^6), and / 10^5 when that keeps six digits
             p6 == (hi + lo \div 1000) \div 1000
             p5 == (hi * 10 + lo \div 100) \div 1000
         IN  IF p6 >= MantLo THEN Norm(a.s * b.s, p6, a.e + b.e + 6)
             ELSE Norm(a.s * b.s, p5, a.e + b.e + 5)

RECURSIVE LongDiv(_, _, _, _)
LongDiv(r, d, steps, q) ==
    IF steps = 0 THEN q
    ELSE LongDiv((r * 10) % d, d, steps - 1, q * 10 + ((r * 10) \div d))

\* a / b on float64 operands of numpy: x/0 is inf, 0/0 is nan, no exception
FDiv(a, b) ==
    IF a.k = "nan" \/ b.k = "nan" THEN NaN
    ELSE IF a.k = "inf" THEN IF b.k = "inf" THEN NaN ELSE Inf(a.s * b.s)
    ELSE IF b.k = "inf" THEN Zero
    ELSE IF b.m = 0 THEN IF a.m = 0 THEN NaN ELSE Inf(a.s * b.s)
    ELSE IF a.m = 0 THEN Zero
    ELSE Norm(a.s * b.s, LongDiv(a.m % b.m, b.m, 6, a.m \div b.m), a.e - b.e - 6)

\* a + b
FAdd(a, b) ==
    IF a.k = "nan" \/ b.k = "nan" THEN NaN
    ELSE IF a.k = "inf" THEN IF b.k = "inf" /\ b.s # a.s THEN NaN ELSE a
    ELSE IF b.k = "inf" THEN b
    ELSE IF a.m = 0 THEN b
    ELSE IF b.m = 0 THEN a
    ELSE LET big == IF a.e >= b.e THEN a ELSE b
             small == IF a.e >= b.e THEN b ELSE a
             d == big.e - small.e
             \* three guard digits
             up == IF d > 3 THEN 3 ELSE d
             down == d - up
             bm == big.s * big.m * Pow10(up)
             sm == IF down >= 6 THEN 0 ELSE small.s * (small.m \div Pow10(down))
             sum == bm + sm
         IN  IF sum < 0 THEN Norm(-1, -sum, big.e - up)
             ELSE Norm(1, sum, big.e - up)

\* np.maximum / np.minimum: nan propagates
Maximum(a, b) == IF IsNaN(a) \/ IsNaN(b) THEN NaN ELSE IF FLess(a, b) THEN b ELSE a
Minimum(a, b) == IF IsNaN(a) \/ IsNaN(b) THEN NaN ELSE IF FLess(b, a) THEN b ELSE a
\* np.clip(x, lo, hi)
Clip(x, lo, hi) == Minimum(Maximum(x, lo), hi)

----------------------------------------------------------------------------
(* aeroforge_range_calc *)

\* default value of the keyword argument cruise_hours
cruise_hours_default == Dec(6, 0)

\* np.maximum(0, np.minimum(50000, r)) without the lower bound
BoundedAboveOnly(r) == Minimum(Dec(50000, 0), r)

\* np.maximum(0, np.minimum(50000, r))
Bounded(r) == Maximum(Zero, Minimum(Dec(50000, 0), r))

\* Returns [err, val]: err is a raised ZeroDivisionError.  np_scalars tells
\* whether the operands of the division are numpy.float64 scalars (as when
\* the Monte-Carlo loop passes elements of the sample arrays) or plain Python
\* floats: numpy divides by zero to inf/nan, Python raises.
aeroforge_range_calc(eta_system, epack_wh_per_kg, m_batt_kg, m_total_kg, g, l_over_d, sfc_eq, harvest_kw, sic_efficiency_gain, cruise_hours, np_scalars) ==
    LET e_pack_total_wh == FMul(epack_wh_per_kg, m_batt_kg)
        e_harvest_wh == FMul(FMul(harvest_kw, Dec(1000, 0)), cruise_hours)
        eta_effective == FMul(eta_system, sic_efficiency_gain)
        e_usable_wh == FMul(eta_effective, FAdd(e_pack_total_wh, e_harvest_wh))
        denominator == FMul(FMul(FMul(g, l_over_d), sfc_eq), m_total_kg)
        r_m == FDiv(e_usable_wh, denominator)
        r_km == Bounded(FDiv(r_m, Dec(1000, 0)))
    IN  IF ~np_scalars /\ IsZero(denominator)
        THEN [err |-> TRUE, val |-> NaN]
        ELSE [err |-> FALSE, val |-> r_km]

\* the denominator of the Breguet relation, as aeroforge_range_calc computes it
Denominator(a) == FMul(FMul(FMul(a.g, a.l_over_d), a.sfc_eq), a.m_total_kg)

----------------------------------------------------------------------------
(* run_aeroforge_montecarlo *)

\* the nominal parameters with another battery mass
params_nom_lighter ==
    [eta_system |-> Dec(92, -2),
     epack_wh_per_kg |-> Dec(450, 0),
     m_batt_kg |-> Dec(2500, 0),
     m_total_kg |-> Dec(80000, 0),
     g |-> Dec(980665, -5),
     l_over_d |-> Dec(22, 0),
     sfc_eq |-> Dec(15, -5),
     harvest_kw |-> Dec(15, 0),
     sic_efficiency_gain |-> Dec(108, -2)]

params_nom ==
    [eta_system |-> Dec(92, -2),
     epack_wh_per_kg |-> Dec(450, 0),
     m_batt_kg |-> Dec(25000, 0),
     m_total_kg |-> Dec(80000, 0),
     g |-> Dec(980665, -5),
     l_over_d |-> Dec(22, 0),
     sfc_eq |-> Dec(15, -5),
     harvest_kw |-> Dec(15, 0),
     sic_efficiency_gain |-> Dec(108, -2)]

\* The process-wide generator of numpy.random: seeding sets its state from
\* the seed alone, every draw advances it, and the value drawn is a function
\* of the state.
\* a seeding that leaves the generator where it was
np_random_seed_ignored(state, seed) == state
np_random_seed(state, seed) == seed % RngStates
RngAdvance(state, k) == (state + k) % RngStates
ZValues == <<Dec(0, 0), Dec(-30, -1), Dec(10, -1), Dec(-5, -1)>>
\* np.random.randn(n) from the given state: n standard-normal draws
randn(state, n) ==
    [i \in 1..n |-> ZValues[(RngAdvance(state, i - 1) % Len(ZValues)) + 1]]

\* nominal * (1 + rel_std * z)
Perturb(nominal, rel_std, z) == FMul(nominal, FAdd(Dec(1, 0), FMul(rel_std, z)))

\* the perturbed values without the floor
UnflooredSample(floor, nominal, rel_std, zs) ==
    [i \in 1..Len(zs) |-> Perturb(nominal, rel_std, zs[i])]

\* np.maximum(floor, nominal * (1 + rel_std * randn(n))), elementwise
FlooredSample(floor, nominal, rel_std, zs) ==
    [i \in 1..Len(zs) |-> Maximum(floor, Perturb(nominal, rel_std, zs[i]))]

\* np.clip(nominal * (1 + rel_std * randn(n)), lo, hi), elementwise
ClippedSample(nominal, rel_std, zs, lo, hi) ==
    [i \in 1..Len(zs) |-> Clip(Perturb(nominal, rel_std, zs[i]), lo, hi)]

\* the five sample arrays, drawn in the order of the code from state s0
DrawSamples(s0, n) ==
    [epack |-> FlooredSample(Dec(200, 0), params_nom.epack_wh_per_kg,
                             Dec(25, -2), randn(s0, n)),
     l_over_d |-> FlooredSample(Dec(15, 0), params_nom.l_over_d,
                                Dec(15, -2), randn(RngAdvance(s0, n), n)),
     harvest |-> FlooredSample(Zero, params_nom.harvest_kw,
                               Dec(4, -1), randn(RngAdvance(s0, 2 * n), n)),
     sic_gain |-> FlooredSample(Dec(10, -1), params_nom.sic_efficiency_gain,
                                Dec(2, -1), randn(RngAdvance(s0, 3 * n), n)),
     eta |-> ClippedSample(params_nom.eta_system, Dec(1, -1),
                           randn(RngAdvance(s0, 4 * n), n),
                           Dec(7, -1), Dec(98, -2))]

\* an evaluation loop that takes l_over_d from the nominal parameters
EvaluateTrialsNominalLD(samples, n) ==
    [i \in 1..n |->
        aeroforge_range_calc(samples.eta[i], samples.epack[i],
                             params_nom.m_batt_kg, params_nom.m_total_kg,
                             params_nom.g, params_nom.l_over_d,
                             params_nom.sfc_eq, samples.harvest[i],
                             samples.sic_gain[i], cruise_hours_default, TRUE)]

\* the evaluation loop: one call of aeroforge_range_calc per trial
EvaluateTrials(samples, n) ==
    [i \in 1..n |->
        aeroforge_range_calc(samples.eta[i], samples.epack[i],
                             params_nom.m_batt_kg, params_nom.m_total_kg,
                             params_nom.g, samples.l_over_d[i],
                             params_nom.sfc_eq, samples.harvest[i],
                             samples.sic_gain[i], cruise_hours_default, TRUE)]

RunCounts == (-1)..MaxRuns
Seeds == 0..MaxSeed

\* The value of one call run_aeroforge_montecarlo(n_runs, seed) started with
\* the generator in state rng0; pre_seeded records whether the generator
\* already was in the state the seed sets.  np.random.randn raises ValueError for a
\* negative n_runs; an exception of a trial is not caught.
RunOutcome(n_runs, seed, rng0) ==
    LET s0 == np_random_seed(rng0, seed)
        samples == DrawSamples(s0, n_runs)
        calls == EvaluateTrials(samples, n_runs)
    IN  IF n_runs < 0 \/ \E i \in 1..n_runs : calls[i].err
        THEN [status |-> "error", n_runs |-> n_runs, seed |-> seed,
              pre_seeded |-> (rng0 = s0)]
        ELSE [status |-> "ok", n_runs |-> n_runs, seed |-> seed,
              pre_seeded |-> (rng0 = s0),
              samples |-> samples,
              ranges_km |-> [i \in 1..n_runs |-> calls[i].val],
              params_nom |-> params_nom]

\* the generator's state when the call returns or raises
RngAfterRun(n_runs, seed, rng0) ==
    LET s0 == np_random_seed(rng0, seed)
    IN  IF n_runs < 0 THEN s0 ELSE RngAdvance(s0, 5 * n_runs)

----------------------------------------------------------------------------
(* analyze_results *)

Fields == {"epack", "l_over_d", "harvest", "sic_gain", "eta"}

RECURSIVE SumSeq(_, _)
SumSeq(xs, i) == IF i = 0 THEN Zero ELSE FAdd(SumSeq(xs, i - 1), xs[i])

\* np.sum(ranges_km >= threshold)
RECURSIVE CountAtLeast(_, _, _)
CountAtLeast(xs, threshold, i) ==
    IF i = 0 THEN 0
    ELSE CountAtLeast(xs, threshold, i - 1)
         + (IF FGeq(xs[i], threshold) THEN 1 ELSE 0)

\* np.sum(ranges_km > threshold)
RECURSIVE CountAbove(_, _, _)
CountAbove(xs, threshold, i) ==
    IF i = 0 THEN 0
    ELSE CountAbove(xs, threshold, i - 1)
         + (IF ~IsNaN(xs[i]) /\ FLess(threshold, xs[i]) THEN 1 ELSE 0)

\* the rate of the trials strictly above the threshold
AchievementRateStrict(ranges_km, threshold) ==
    FMul(FDiv(Dec(CountAbove(ranges_km, threshold, Len(ranges_km)), 0),
              Dec(Len(ranges_km), 0)),
         Dec(100, 0))

\* np.sum(ranges_km >= threshold) / len(ranges_km) * 100
AchievementRate(ranges_km, threshold) ==
    FMul(FDiv(Dec(CountAtLeast(ranges_km, threshold, Len(ranges_km)), 0),
              Dec(Len(ranges_km), 0)),
         Dec(100, 0))

Constant(xs) == \A i, j \in 1..Len(xs) : xs[i] = xs[j]

\* np.corrcoef(x, y)[0,1].  Only whether the coefficient is defined is
\* modelled: it is nan when either vector has zero variance (which includes
\* every vector of length 0 or 1), and some number otherwise.
Corrcoef(xs, ys) == IF Constant(xs) \/ Constant(ys) THEN "nan" ELSE "number"

\* The summary returned by analyze_results.  Of its fields, the mean, the two
\* achievement rates and the correlations are modelled.  raises models
\* np.percentile on an empty array, which raises IndexError or returns nan
\* depending on the numpy version.
Summary(samples, ranges_km, raises) ==
    IF Len(ranges_km) = 0 /\ raises
    THEN [status |-> "error", samples |-> samples, ranges_km |-> ranges_km]
    ELSE [status |-> "ok", samples |-> samples, ranges_km |-> ranges_km,
          mean |-> FDiv(SumSeq(ranges_km, Len(ranges_km)), Dec(Len(ranges_km), 0)),
          target_5k |-> AchievementRate(ranges_km, Dec(5000, 0)),
          target_10k |-> AchievementRate(ranges_km, Dec(10000, 0)),
          correlations |-> [f \in Fields |-> Corrcoef(samples[f], ranges_km)]]

----------------------------------------------------------------------------
(* State:                                                                   *)
(*   rng    state of the process-wide random generator                      *)
(*   run    the last call of run_aeroforge_montecarlo and what it returned  *)
(*   ref    an earlier call of run_aeroforge_montecarlo, kept to compare    *)
(*   stats  the last call of analyze_results and what it returned           *)
(*   calc   the last direct call of aeroforge_range_calc                    *)

Init ==
    /\ rng \in 0..(RngStates - 1)
    /\ run = [status |-> "none"]
    /\ ref = [status |-> "none"]
    /\ stats = [status |-> "none"]
    /\ calc = [status |-> "none"]

\* run_aeroforge_montecarlo(n_runs, seed); keep remembers this call in ref
Run(n_runs, seed, keep) ==
    /\ run' = RunOutcome(n_runs, seed, rng)
    /\ rng' = RngAfterRun(n_runs, seed, rng)
    /\ ref' = IF keep THEN run' ELSE ref
    /\ stats' = [status |-> "none"]
    /\ UNCHANGED calc

\* any other code of the process drawing from the shared generator
OtherDraw ==
    /\ rng' = RngAdvance(rng, 1)
    /\ UNCHANGED <<run, ref, stats, calc>>

\* analyze_results(samples, ranges_km) on what the last run returned, as main does
AnalyzeRun ==
    /\ run.status = "ok"
    /\ stats.status = "none"
    /\ \E raises \in BOOLEAN :
          stats' = Summary(run.samples, run.ranges_km, raises)
    /\ UNCHANGED <<rng, run, ref, calc>>

\* the whole pipeline: runs, analyses of their results, foreign draws
Next ==
    \/ \E n_runs \in RunCounts, seed \in Seeds, keep \in BOOLEAN :
          Run(n_runs, seed, keep)
    \/ OtherDraw
    \/ AnalyzeRun

Spec == Init /\ [][Next]_vars

----------------------------------------------------------------------------
(* Direct calls of aeroforge_range_calc *)

CalcArgs ==
    [eta_system : {Zero, Dec(92, -2)},
     epack_wh_per_kg : {Dec(-450, 0), Dec(200, 0), Dec(450, 0)},
     m_batt_kg : {Dec(25000, 0)},
     m_total_kg : {Dec(80000, 0)},
     g : {Dec(980665, -5)},
     l_over_d : {Zero, Dec(15, 0), Dec(22, 0)},
     sfc_eq : {Zero, Dec(15, -5), Dec(15, -10)},
     harvest_kw : {Dec(15, 0)},
     sic_efficiency_gain : {Dec(108, -2)},
     cruise_hours : {Dec(6, 0)}]

CallRangeCalc(a, np_scalars) ==
    LET r == aeroforge_range_calc(a.eta_system, a.epack_wh_per_kg, a.m_batt_kg,
                                  a.m_total_kg, a.g, a.l_over_d, a.sfc_eq,
                                  a.harvest_kw, a.sic_efficiency_gain,
                                  a.cruise_hours, np_scalars)
    IN  /\ calc' = [status |-> IF r.err THEN "error" ELSE "ok",
                    args |-> a, np_scalars |-> np_scalars, val |-> r.val]
        /\ UNCHANGED <<rng, run, ref, stats>>

NextCalc ==
    \/ \E a \in CalcArgs, np_scalars \in BOOLEAN : CallRangeCalc(a, np_scalars)
    \/ \E n_runs \in RunCounts, seed \in Seeds : Run(n_runs, seed, FALSE)

SpecCalc == Init /\ [][NextCalc]_vars

----------------------------------------------------------------------------
(* Direct calls of analyze_results *)

RangeValues == {Dec(435, -2), Dec(5000, 0), Dec(10000, 0)}

ResultSets == UNION {[1..n -> RangeValues] : n \in 0..MaxRuns}

\* a sample batch of length n in which the fields of varying differ from
\* trial to trial and the other fields are constant
Batch(n, varying) ==
    LET base == [epack |-> params_nom.epack_wh_per_kg,
                 l_over_d |-> params_nom.l_over_d,
                 harvest |-> params_nom.harvest_kw,
                 sic_gain |-> params_nom.sic_efficiency_gain,
                 eta |-> params_nom.eta_system]
    IN  [f \in Fields |->
            [i \in 1..n |-> IF f \in varying
                            THEN FMul(base[f], Dec(100 + i, -2))
                            ELSE base[f]]]

AnalyzeDirect(samples, ranges_km, raises) ==
    /\ stats' = Summary(samples, ranges_km, raises)
    /\ UNCHANGED <<rng, run, ref, calc>>

NextAnalyze ==
    \E ranges_km \in ResultSets, varying \in {{}, {"epack", "eta"}, Fields},
       raises \in BOOLEAN :
        AnalyzeDirect(Batch(Len(ranges_km), varying), ranges_km, raises)

SpecAnalyze == Init /\ [][NextAnalyze]_vars

----------------------------------------------------------------------------
(* Properties *)

InRange(x) == x.k = "fin" /\ FGeq(x, Zero) /\ FGeq(Dec(50000, 0), x)

\* the range in km before the clamp
Unclamped(a) ==
    FDiv(FDiv(FMul(FMul(a.eta_system, a.sic_efficiency_gain),
                   FAdd(FMul(a.epack_wh_per_kg, a.m_batt_kg),
                        FMul(FMul(a.harvest_kw, Dec(1000, 0)), a.cruise_hours))),
              Denominator(a)),
         Dec(1000, 0))

\* C1: whenever the denominator g * l_over_d * sfc_eq * m_total_kg is not
\* zero, the value aeroforge_range_calc returns lies in [0, 50000]; and every
\* entry of the ranges_km a run returns lies in [0, 50000].
RangeClamped ==
    /\ (calc.status # "none" /\ ~IsZero(Denominator(calc.args)))
          => (calc.status = "ok" /\ InRange(calc.val))
    /\ run.status = "ok"
          => \A i \in 1..Len(run.ranges_km) : InRange(run.ranges_km[i])

RangeClampedWitness ==
    /\ calc.status = "ok"
    /\ ~IsZero(Denominator(calc.args))
    /\ FLess(Dec(50000, 0), Unclamped(calc.args))
    /\ calc.val = Dec(50000, 0)
    /\ run.status = "ok"
    /\ run.n_runs = MaxRuns

\* C2: every sample a run returns respects its floor or clip: epack >= 200,
\* l_over_d >= 15, harvest >= 0, sic_gain >= 1.0, 0.70 <= eta <= 0.98.
SamplesRespectFloors ==
    run.status = "ok" =>
        \A i \in 1..run.n_runs :
            /\ FGeq(run.samples.epack[i], Dec(200, 0))
            /\ FGeq(run.samples.l_over_d[i], Dec(15, 0))
            /\ FGeq(run.samples.harvest[i], Zero)
            /\ FGeq(run.samples.sic_gain[i], Dec(1, 0))
            /\ FGeq(run.samples.eta[i], Dec(70, -2))
            /\ FGeq(Dec(98, -2), run.samples.eta[i])

\* a run in which a draw fell below every floor and one above the upper clip
SamplesRespectFloorsWitness ==
    /\ run.status = "ok"
    /\ \E i \in 1..run.n_runs : run.samples.epack[i] = Dec(200, 0)
    /\ \E i \in 1..run.n_runs : run.samples.l_over_d[i] = Dec(15, 0)
    /\ \E i \in 1..run.n_runs : run.samples.harvest[i] = Zero
    /\ \E i \in 1..run.n_runs : run.samples.sic_gain[i] = Dec(1, 0)
    /\ \E i \in 1..run.n_runs : run.samples.eta[i] = Dec(70, -2)
    /\ \E i \in 1..run.n_runs : run.samples.eta[i] = Dec(98, -2)

\* C3: two calls of run_aeroforge_montecarlo with the same (n_runs, seed)
\* return the same samples and the same ranges, whatever the generator's
\* state was before each of them.
ReproducibleRuns ==
    (ref.status = "ok" /\ run.status = "ok"
     /\ ref.n_runs = run.n_runs /\ ref.seed = run.seed)
        => (ref.samples = run.samples /\ ref.ranges_km = run.ranges_km)

\* two such calls, started from different generator states
ReproducibleRunsWitness ==
    /\ ref.status = "ok" /\ run.status = "ok"
    /\ ref.n_runs = run.n_runs /\ ref.seed = run.seed
    /\ run.n_runs = MaxRuns
    /\ ref.pre_seeded # run.pre_seeded

\* C4: a call with n_runs < 1 fails; it never returns (empty) arrays.
InvalidRunCountFails ==
    (run.status # "none" /\ run.n_runs < 1) => run.status = "error"

\* C5: between two calls of aeroforge_range_calc with positive arguments that
\* differ only by a larger epack_wh_per_kg, or only by a larger l_over_d, the
\* returned range does not decrease.
Positive(a) == \A f \in DOMAIN a : FLess(Zero, a[f])
OnlyIncreased(a, b, f) ==
    /\ \A h \in DOMAIN a : h # f => b[h] = a[h]
    /\ FLess(a[f], b[f])
RangeMonotone ==
    [][(/\ calc.status = "ok" /\ calc'.status = "ok"
        /\ Positive(calc.args) /\ Positive(calc'.args)
        /\ \/ OnlyIncreased(calc.args, calc'.args, "epack_wh_per_kg")
           \/ OnlyIncreased(calc.args, calc'.args, "l_over_d"))
       => FGeq(calc'.val, calc.val)]_vars

\* C6: a run returns five sample sequences and a result sequence of length
\* n_runs, and ranges_km[i] is aeroforge_range_calc of the five samples of
\* index i and of m_batt_kg, m_total_kg, g, sfc_eq of the nominal parameters.
TrialsAligned ==
    run.status = "ok" =>
        /\ \A f \in Fields : Len(run.samples[f]) = run.n_runs
        /\ DOMAIN run.samples = Fields
        /\ Len(run.ranges_km) = run.n_runs
        /\ \A i \in 1..run.n_runs :
              run.ranges_km[i] =
                 aeroforge_range_calc(run.samples.eta[i], run.samples.epack[i],
                                      Dec(25000, 0), Dec(80000, 0),
                                      Dec(980665, -5), run.samples.l_over_d[i],
                                      Dec(15, -5), run.samples.harvest[i],
                                      run.samples.sic_gain[i], Dec(6, 0),
                                      TRUE).val

\* a run whose trials differ in every field and in their result
TrialsAlignedWitness ==
    /\ run.status = "ok"
    /\ run.n_runs >= 2
    /\ \A f \in Fields : run.samples[f][1] # run.samples[f][2]
    /\ run.ranges_km[1] # run.ranges_km[2]

\* C7: analyze_results fails when a field's sample vector has zero variance.
ZeroVarianceFails ==
    (/\ stats.status # "none"
     /\ Len(stats.ranges_km) >= 1
     /\ \E f \in Fields : Constant(stats.samples[f]))
        => stats.status = "error"

\* C8: an evaluation of the range whose denominator is zero ends in an error,
\* never in a value.
ZeroDenominatorFails ==
    (calc.status # "none" /\ IsZero(Denominator(calc.args)))
        => calc.status = "error"

\* C9: for a non-empty result set, target_5k and target_10k are the
\* percentages of trials with result >= 5000 and >= 10000, both lie in
\* [0, 100], and target_5k >= target_10k.
Percentage(xs, threshold) ==
    FMul(FDiv(Dec(Cardinality({i \in 1..Len(xs) : ~FLess(xs[i], threshold)}), 0),
              Dec(Len(xs), 0)),
         Dec(100, 0))
AchievementMonotone ==
    (stats.status = "ok" /\ Len(stats.ranges_km) >= 1) =>
        /\ stats.target_5k = Percentage(stats.ranges_km, Dec(5000, 0))
        /\ stats.target_10k = Percentage(stats.ranges_km, Dec(10000, 0))
        /\ FGeq(stats.target_5k, stats.target_10k)
        /\ FGeq(stats.target_10k, Zero)
        /\ FGeq(Dec(100, 0), stats.target_5k)

\* a result set with trials below 5000, between the thresholds and above 10000
AchievementMonotoneWitness ==
    /\ stats.status = "ok"
    /\ FLess(stats.target_10k, stats.target_5k)
    /\ FLess(Zero, stats.target_10k)
    /\ FLess(stats.target_5k, Dec(100, 0))
    /\ \E i \in 1..Len(stats.ranges_km) : stats.ranges_km[i] = Dec(5000, 0)

====
